---- MODULE Spec2Model ----
(***************************************************************************)
(* Model of models/responder.py: generate_response, the multi-backend      *)
(* vision-language response generator.  One call runs at a time; pc is the *)
(* position inside generate_response.  Collaborators (load_model, the      *)
(* processors, the inference objects, the remote clients, PIL, the file    *)
(* system) are modelled by what the code observes of them: a value or a    *)
(* raised exception, chosen nondeterministically.                          *)
(***************************************************************************)
EXTENDS Integers, Sequences, FiniteSets, TLC

(* ------------------------------ bounds --------------------------------- *)

\* longest image list passed to one call
MaxImages == 2

\* the qwen-only specification explores every sizing hint in 1..MaxHint
\* (and 55, 56, 57, 280, 300)
MaxHint == 29

(* --------------------------- program constants ------------------------- *)

\* the six model_choice keys generate_response tests for
Backends == {"qwen", "gemini", "gpt4", "llama-vision", "pixtral", "molmo"}

\* keys whose branch takes a cached handle from load_model
CachedBackends == {"qwen", "gemini", "llama-vision", "pixtral", "molmo"}

\* model_choice values a caller may pass: the six keys and two others
ModelChoices == Backends \cup {"unknown", "QWEN"}

\* default of the resized_height / resized_width parameters
DefaultHint == 280

\* the grid alignment of the qwen branch
Alignment == 28

\* what a listed file can be: present and decodable; absent; present but
\* open() / Image.open raises; present, Image.open succeeds, but decoding
\* the pixel data (convert, load) raises
ImageKinds == {"ok", "missing", "unreadable", "truncated"}

\* str(e) of the exceptions collaborators raise
ErrMsgs == {"timeout", "quota exceeded"}

\* non-empty texts an inference object produces
Texts == {"a cat"}

\* texts a local decode step returns
DecodedTexts == Texts \cup {""}

\* numeric precisions a loaded inference object can have
Dtypes == {"float32", "bfloat16", "float16"}

(* ------------------------------ values --------------------------------- *)

Str(s) == [type |-> "str", value |-> s]

None == [type |-> "NoneType", value |-> ""]

\* the call has not returned; the remote call has not been made
Pending == [type |-> "pending", value |-> ""]

\* the classes of a raised exception that the except clauses tell apart:
\* "Exception" stands for Exception and its subclasses, "BaseException" for
\* the others (KeyboardInterrupt, SystemExit, GeneratorExit)
ExcClasses == {"Exception", "BaseException"}

\* an exception in flight: its class and its str()
Exc(cls, msg) == [class |-> cls, msg |-> msg]

\* no exception is in flight
NoExc == [class |-> "", msg |-> ""]

\* what "except Exception" catches
Catches(e) == e.class = "Exception"

\* the remote call raised an exception of class cls whose str() is msg
Raised(cls, msg) == [type |-> "raised", class |-> cls, value |-> msg]

\* the text field of a remote response: a text, the empty string, or null
ResponseTexts == {Str(t) : t \in Texts} \cup {Str(""), None}

\* Python truthiness of an Optional[str]
Truthy(v) == v.type = "str" /\ v.value # ""

InvalidModelText == "Invalid model selected."

NoImagesText == "No images could be loaded for analysis."

GeminiEmptyText == "The Gemini model did not generate any text response."

GenericErrorText == "An error occurred while generating the response."

ProcessingErrorPrefix == "An error occurred while processing the images: "

RECURSIVE SeqsUpTo(_, _)
\* all sequences over S of length 0..n
SeqsUpTo(S, n) ==
    IF n = 0 THEN {<<>>}
    ELSE LET shorter == SeqsUpTo(S, n - 1)
             longest == {t \in shorter : Len(t) = n - 1}
         IN  shorter \cup {Append(s, x) : s \in longest, x \in S}

ImageLists == SeqsUpTo(ImageKinds, MaxImages)

\* the hints of the general specification: the default and one unaligned
Hints == {DefaultHint, 300}

\* the hints of the qwen-only specification
QwenHints == (1..MaxHint) \cup {55, 56, 57, DefaultHint, 300}

\* what load_model has cached when the first call arrives: every model in
\* one of the precisions a loader can produce
LoadedHandles == {[b \in CachedBackends |-> d] : d \in Dtypes}

(* ------------------------------ state ---------------------------------- *)

VARIABLES
    pc,              \* position in generate_response; "idle" between calls,
                     \* "done" once it returned, "raised" once an exception
                     \* left it
    model_choice,    \* parameter
    images,          \* parameter: the kind of each listed file, in order
    resized_height,  \* parameter, reassigned by the qwen branch
    resized_width,   \* parameter, reassigned by the qwen branch
    i,               \* index of the next image a loop visits (1-based)
    content,         \* gemini / gpt4 / pixtral: the parts built so far
    image_contents,  \* qwen: the image parts built so far
    image_paths,     \* llama-vision: the joined paths (indices into images)
    pil_images,      \* molmo: the converted images held
    touched,         \* indices whose file was checked, opened or read
    load_calls,      \* load_model calls made by this call
    infer_calls,     \* inference / remote calls made by this call
    infer_images,    \* the images the last inference call was given
    preproc_parts,   \* qwen: the image parts handed to the preprocessor
    open_images,     \* molmo: image resources acquired and not yet released
    handle,          \* per cached backend: precision of the cached model
    loaded,          \* per cached backend: precision load_model produced
    exc,             \* the exception in flight, NoExc when none
    hints,           \* the sizing hints the caller passed, <<height, width>>
    response,        \* gemini / gpt4: what the remote call produced
    faulted,         \* a collaborator raised on its own in this call
    result           \* the returned value, Pending until the call returns

vars == <<pc, model_choice, images, resized_height, resized_width, i, content,
          image_contents, image_paths, pil_images, touched, load_calls,
          infer_calls, infer_images, preproc_parts, open_images, handle,
          loaded, exc, hints, response, faulted, result>>

params == <<model_choice, images, hints, resized_height, resized_width>>

counters == <<load_calls, infer_calls, infer_images>>

TextPart == [type |-> "text", ref |-> 0]

ImagePart(k) == [type |-> "image", ref |-> k]

\* the indices of the image parts of a content list, in order
RECURSIVE ImageRefs(_)
ImageRefs(parts) ==
    IF parts = <<>> THEN <<>>
    ELSE IF Head(parts).type = "image"
         THEN <<Head(parts).ref>> \o ImageRefs(Tail(parts))
         ELSE ImageRefs(Tail(parts))

Init ==
    /\ pc = "idle"
    /\ model_choice = "qwen"
    /\ images = <<>>
    /\ resized_height = DefaultHint
    /\ resized_width = DefaultHint
    /\ i = 1
    /\ content = <<>>
    /\ image_contents = <<>>
    /\ image_paths = <<>>
    /\ pil_images = <<>>
    /\ touched = {}
    /\ load_calls = 0
    /\ infer_calls = 0
    /\ infer_images = <<>>
    /\ preproc_parts = <<>>
    /\ open_images = {}
    /\ loaded \in LoadedHandles
    /\ handle = loaded
    /\ exc = NoExc
    /\ hints = <<DefaultHint, DefaultHint>>
    /\ response = Pending
    /\ faulted = FALSE
    /\ result = Pending

(* --------------------------- entry and dispatch ------------------------ *)

\* a caller invokes generate_response(images, query, session_id, h, w, mc)
Enter(mc, imgs, h, w) ==
    /\ pc = "idle"
    /\ pc' = "dispatch"
    /\ model_choice' = mc
    /\ images' = imgs
    /\ hints' = <<h, w>>
    /\ resized_height' = h
    /\ resized_width' = w
    /\ response' = Pending
    /\ faulted' = FALSE
    /\ i' = 1
    /\ content' = <<>>
    /\ image_contents' = <<>>
    /\ image_paths' = <<>>
    /\ pil_images' = <<>>
    /\ touched' = {}
    /\ load_calls' = 0
    /\ infer_calls' = 0
    /\ infer_images' = <<>>
    /\ preproc_parts' = <<>>
    /\ open_images' = {}
    /\ exc' = NoExc
    /\ result' = Pending
    /\ UNCHANGED <<handle, loaded>>

Call ==
    /\ pc = "idle"
    /\ \E mc \in ModelChoices, imgs \in ImageLists, h \in Hints, w \in Hints :
          Enter(mc, imgs, h, w)

\* the caller has the returned value, or the exception that left the call:
\* the frame of the call is gone and the next call can start
Return ==
    /\ pc \in {"done", "raised"}
    /\ pc' = "idle"
    /\ i' = 1
    /\ content' = <<>>
    /\ image_contents' = <<>>
    /\ image_paths' = <<>>
    /\ pil_images' = <<>>
    /\ touched' = {}
    /\ load_calls' = 0
    /\ infer_calls' = 0
    /\ infer_images' = <<>>
    /\ preproc_parts' = <<>>
    /\ model_choice' = "qwen"
    /\ images' = <<>>
    /\ hints' = <<DefaultHint, DefaultHint>>
    /\ resized_height' = DefaultHint
    /\ resized_width' = DefaultHint
    /\ result' = Pending
    /\ response' = Pending
    /\ faulted' = FALSE
    /\ open_images' = {}
    /\ exc' = NoExc
    /\ UNCHANGED <<handle, loaded>>

\* variant: a chain whose last branch is the default one, so that an
\* unknown key runs the qwen branch
BranchOf_DefaultQwen(mc) ==
    CASE mc = "gemini" -> "gemini_load"
      [] mc = "gpt4" -> "gpt4_client"
      [] mc = "llama-vision" -> "llama_load"
      [] mc = "pixtral" -> "pixtral_load"
      [] mc = "molmo" -> "molmo_load"
      [] OTHER -> "qwen_import"

\* the branch the if / elif chain selects
BranchOf(mc) ==
    CASE mc = "qwen" -> "qwen_import"
      [] mc = "gemini" -> "gemini_load"
      [] mc = "gpt4" -> "gpt4_client"
      [] mc = "llama-vision" -> "llama_load"
      [] mc = "pixtral" -> "pixtral_load"
      [] mc = "molmo" -> "molmo_load"
      [] OTHER -> "invalid"

Dispatch ==
    /\ pc = "dispatch"
    /\ pc' = BranchOf(model_choice)
    /\ UNCHANGED <<params, i, content, image_contents, image_paths,
                   pil_images, touched, counters, preproc_parts, open_images,
                   handle, loaded, exc, faulted, result, response>>

\* the else branch: log and return the fixed text
InvalidModel ==
    /\ pc = "invalid"
    /\ result' = Str(InvalidModelText)
    /\ pc' = "done"
    /\ UNCHANGED <<response, params, i, content, image_contents, image_paths,
                   pil_images, touched, counters, preproc_parts, open_images,
                   handle, loaded, exc, faulted>>

\* what the outer except clause returns
OuterHandler(msg) == Str(GenericErrorText)

\* the outer clause, except Exception: an exception it catches is logged
\* and the generic text returned; any other leaves generate_response
OuterExcept ==
    /\ pc = "outer_except"
    /\ IF Catches(exc)
       THEN /\ result' = OuterHandler(exc.msg)
            /\ exc' = NoExc
            /\ pc' = "done"
       ELSE /\ pc' = "raised"
            /\ UNCHANGED <<result, exc>>
    /\ UNCHANGED <<faulted, response, params, i, content, image_contents,
                   image_paths, pil_images, touched, counters, preproc_parts,
                   open_images, handle, loaded>>

\* what the except clause nested in the gemini and gpt4 branches returns
InnerHandler(msg) == Str(ProcessingErrorPrefix \o msg)

(* ------------------------ file system and PIL -------------------------- *)

\* os.path.exists(full_path)
Exists(kind) == kind # "missing"

\* Image.open(full_path) returns (it reads the header only)
OpensAsImage(kind) == kind \in {"ok", "truncated"}

\* open(path, "rb").read() returns: a binary read decodes nothing
ReadsAsBytes(kind) == kind \in {"ok", "truncated"}

\* the pixel data decodes: Image.convert('RGB') returns
Decodes(kind) == kind = "ok"

\* frame of the steps that leave the branch-local collections alone
locals == <<i, content, image_contents, image_paths, pil_images, touched,
            preproc_parts, open_images>>

\* a step of the outer try block raises because of the file it was given
\* (an OSError, an IndexError): control goes to the outer except clause
RaiseToOuter(msg) ==
    /\ exc' = Exc("Exception", msg)
    /\ pc' = "outer_except"
    /\ UNCHANGED faulted

\* a collaborator called in the outer try block raises on its own, an
\* exception of either class
FaultToOuter(msg) ==
    /\ \E cls \in ExcClasses : exc' = Exc(cls, msg)
    /\ pc' = "outer_except"
    /\ faulted' = TRUE

(* ------------------------------ gemini --------------------------------- *)

\* model, _ = load_model('gemini'); content = [query]
GeminiLoad ==
    /\ pc = "gemini_load"
    /\ load_calls' = load_calls + 1
    /\ \/ /\ \E msg \in ErrMsgs : FaultToOuter(msg)
          /\ UNCHANGED content
       \/ /\ content' = <<TextPart>>
          /\ pc' = "gemini_loop"
          /\ UNCHANGED <<exc, faulted>>
    /\ UNCHANGED <<params, i, image_contents, image_paths, pil_images,
                   touched, infer_calls, infer_images, preproc_parts,
                   open_images, handle, loaded, result, response>>

\* one iteration of the loop over images: a missing file is skipped with a
\* warning, a failing Image.open is caught per image and skipped
GeminiLoopStep ==
    /\ pc = "gemini_loop"
    /\ i <= Len(images)
    /\ touched' = touched \cup {i}
    /\ content' = IF Exists(images[i]) /\ OpensAsImage(images[i])
                  THEN Append(content, ImagePart(i))
                  ELSE content
    /\ i' = i + 1
    /\ UNCHANGED <<pc, params, image_contents, image_paths, pil_images,
                   counters, preproc_parts, open_images, handle, loaded, exc,
                   faulted, result, response>>

\* if len(content) == 1: return the "no images" text
GeminiCheck ==
    /\ pc = "gemini_loop"
    /\ i > Len(images)
    /\ IF Len(content) = 1
       THEN /\ result' = Str(NoImagesText)
            /\ UNCHANGED response
            /\ pc' = "done"
       ELSE /\ pc' = "gemini_invoke"
            /\ UNCHANGED <<result, response>>
    /\ UNCHANGED <<params, locals, counters, handle, loaded, exc, faulted>>

\* what the gemini branch returns for a response whose text field is text
GeminiText(text) == IF Truthy(text) THEN text ELSE Str(GeminiEmptyText)

\* response = model.generate_content(content); return by response.text
GeminiInvoke ==
    /\ pc = "gemini_invoke"
    /\ infer_calls' = infer_calls + 1
    /\ infer_images' = ImageRefs(content)
    /\ \/ /\ \E cls \in ExcClasses, msg \in ErrMsgs :
                /\ exc' = Exc(cls, msg)
                /\ response' = Raised(cls, msg)
          /\ pc' = "gemini_except"
          /\ faulted' = TRUE
          /\ UNCHANGED result
       \/ /\ \E text \in ResponseTexts :
                /\ response' = text
                /\ result' = GeminiText(text)
          /\ pc' = "done"
          /\ UNCHANGED <<exc, faulted>>
    /\ UNCHANGED <<params, locals, load_calls, handle, loaded>>

\* the clause nested in the gemini branch, except Exception: any other
\* exception goes on to the outer clause
GeminiExcept ==
    /\ pc = "gemini_except"
    /\ IF Catches(exc)
       THEN /\ result' = InnerHandler(exc.msg)
            /\ exc' = NoExc
            /\ pc' = "done"
       ELSE /\ pc' = "outer_except"
            /\ UNCHANGED <<result, exc>>
    /\ UNCHANGED <<faulted, response, params, locals, counters, handle,
                   loaded>>

(* ------------------------------- gpt4 ---------------------------------- *)

\* client = OpenAI(api_key=os.getenv(...)); content = [text part]
Gpt4Client ==
    /\ pc = "gpt4_client"
    /\ \/ /\ \E msg \in ErrMsgs : FaultToOuter(msg)
          /\ UNCHANGED content
       \/ /\ content' = <<TextPart>>
          /\ pc' = "gpt4_loop"
          /\ UNCHANGED <<exc, faulted>>
    /\ UNCHANGED <<params, i, image_contents, image_paths, pil_images,
                   touched, counters, preproc_parts, open_images, handle,
                   loaded, result, response>>

\* one iteration of the loop over images: a missing file is skipped with a
\* warning; encode_image of an existing file is not guarded per image, so
\* a failing read leaves the loop for the branch's except clause
Gpt4LoopStep ==
    /\ pc = "gpt4_loop"
    /\ i <= Len(images)
    /\ touched' = touched \cup {i}
    /\ IF Exists(images[i]) /\ ~ReadsAsBytes(images[i])
       THEN /\ \E msg \in ErrMsgs : exc' = Exc("Exception", msg)
            /\ pc' = "gpt4_except"
            /\ UNCHANGED <<content, i, faulted>>
       ELSE /\ content' = IF Exists(images[i])
                          THEN Append(content, ImagePart(i))
                          ELSE content
            /\ i' = i + 1
            /\ UNCHANGED <<pc, exc, faulted>>
    /\ UNCHANGED <<params, image_contents, image_paths, pil_images, counters,
                   preproc_parts, open_images, handle, loaded, result,
                   response>>

\* if len(content) == 1: return the "no images" text
Gpt4Check ==
    /\ pc = "gpt4_loop"
    /\ i > Len(images)
    /\ IF Len(content) = 1
       THEN /\ result' = Str(NoImagesText)
            /\ UNCHANGED response
            /\ pc' = "done"
       ELSE /\ pc' = "gpt4_invoke"
            /\ UNCHANGED <<result, response>>
    /\ UNCHANGED <<params, locals, counters, handle, loaded, exc, faulted>>

\* what the gpt4 branch returns for a response whose message content is text
Gpt4Text(text) == text

\* response = client.chat.completions.create(...); return message.content
Gpt4Invoke ==
    /\ pc = "gpt4_invoke"
    /\ infer_calls' = infer_calls + 1
    /\ infer_images' = ImageRefs(content)
    /\ \/ /\ \E cls \in ExcClasses, msg \in ErrMsgs :
                /\ exc' = Exc(cls, msg)
                /\ response' = Raised(cls, msg)
          /\ pc' = "gpt4_except"
          /\ faulted' = TRUE
          /\ UNCHANGED result
       \/ /\ \E text \in ResponseTexts :
                /\ response' = text
                /\ result' = Gpt4Text(text)
          /\ pc' = "done"
          /\ UNCHANGED <<exc, faulted>>
    /\ UNCHANGED <<params, locals, load_calls, handle, loaded>>

\* the clause nested in the gpt4 branch, except Exception: any other
\* exception goes on to the outer clause
Gpt4Except ==
    /\ pc = "gpt4_except"
    /\ IF Catches(exc)
       THEN /\ result' = InnerHandler(exc.msg)
            /\ exc' = NoExc
            /\ pc' = "done"
       ELSE /\ pc' = "outer_except"
            /\ UNCHANGED <<result, exc>>
    /\ UNCHANGED <<faulted, response, params, locals, counters, handle,
                   loaded>>

(* ------------------------------- qwen ---------------------------------- *)

\* variant: rounding up to the grid instead of down
AlignDown_RoundUp(x) == ((x + Alignment - 1) \div Alignment) * Alignment

\* (x // 28) * 28
AlignDown(x) == (x \div Alignment) * Alignment

\* from qwen_vl_utils import process_vision_info, before any lookup
QwenImport ==
    /\ pc = "qwen_import"
    /\ \/ \E msg \in ErrMsgs : FaultToOuter(msg)
       \/ /\ pc' = "qwen_load"
          /\ UNCHANGED <<exc, faulted>>
    /\ UNCHANGED <<params, locals, counters, handle, loaded, result, response>>

\* load_model('qwen'); round both hints
QwenLoad ==
    /\ pc = "qwen_load"
    /\ load_calls' = load_calls + 1
    /\ \/ /\ \E msg \in ErrMsgs : FaultToOuter(msg)
          /\ UNCHANGED <<resized_height, resized_width>>
       \/ /\ resized_height' = AlignDown(resized_height)
          /\ resized_width' = AlignDown(resized_width)
          /\ pc' = "qwen_loop"
          /\ UNCHANGED <<exc, faulted>>
    /\ UNCHANGED <<model_choice, images, hints, locals, infer_calls,
                   infer_images, handle, loaded, result, response>>

\* the image part the qwen loop appends for images[k]
QwenPart(k) ==
    [type |-> "image", image |-> k,
     resized_height |-> resized_height, resized_width |-> resized_width]

\* one iteration of the loop over images: the path is joined, no file is
\* looked at
QwenLoopStep ==
    /\ pc = "qwen_loop"
    /\ i <= Len(images)
    /\ image_contents' = Append(image_contents, QwenPart(i))
    /\ i' = i + 1
    /\ UNCHANGED <<pc, params, content, image_paths, pil_images, touched,
                   counters, preproc_parts, open_images, handle, loaded, exc,
                   faulted, result, response>>

\* the index of the first listed file that does not decode, or Len + 1
RECURSIVE FirstBad(_, _)
FirstBad(imgs, k) ==
    IF \/ k > Len(imgs)
       \/ ~(Exists(imgs[k]) /\ OpensAsImage(imgs[k]) /\ Decodes(imgs[k]))
    THEN k
    ELSE FirstBad(imgs, k + 1)

\* apply_chat_template, process_vision_info (which opens and decodes every
\* listed image in order and raises at the first that fails), processor(),
\* inputs.to(device): any of them may raise, after the files visited so far
QwenPreprocess ==
    /\ pc = "qwen_loop"
    /\ i > Len(images)
    /\ preproc_parts' = image_contents
    /\ LET bad == FirstBad(images, 1)
           reach == IF bad > Len(images) THEN Len(images) ELSE bad
       IN  \/ /\ \E n \in 0..reach : touched' = 1..n
              /\ \E msg \in ErrMsgs : FaultToOuter(msg)
           \/ /\ bad <= Len(images)
              /\ touched' = 1..bad
              /\ \E msg \in ErrMsgs : RaiseToOuter(msg)
           \/ /\ bad > Len(images)
              /\ touched' = 1..Len(images)
              /\ pc' = "qwen_generate"
              /\ UNCHANGED <<exc, faulted>>
    /\ UNCHANGED <<params, i, content, image_contents, image_paths,
                   pil_images, counters, open_images, handle, loaded, result,
                   response>>

\* 1, ..., n
Indices(n) == [k \in 1..n |-> k]

\* generated_ids = model.generate(**inputs, max_new_tokens=128)
QwenGenerate ==
    /\ pc = "qwen_generate"
    /\ infer_calls' = infer_calls + 1
    /\ infer_images' = Indices(Len(images))
    /\ \/ \E msg \in ErrMsgs : FaultToOuter(msg)
       \/ /\ pc' = "qwen_decode"
          /\ UNCHANGED <<exc, faulted>>
    /\ UNCHANGED <<params, locals, load_calls, handle, loaded, result,
                   response>>

\* trim, processor.batch_decode, return output_text[0]
QwenDecode ==
    /\ pc = "qwen_decode"
    /\ \/ /\ \E msg \in ErrMsgs : FaultToOuter(msg)
          /\ UNCHANGED <<result, response>>
       \/ /\ \E text \in DecodedTexts : result' = Str(text)
          /\ UNCHANGED response
          /\ pc' = "done"
          /\ UNCHANGED <<exc, faulted>>
    /\ UNCHANGED <<params, locals, counters, handle, loaded>>

(* ---------------------------- llama-vision ----------------------------- *)

\* model, processor, device = load_model('llama-vision')
LlamaLoad ==
    /\ pc = "llama_load"
    /\ load_calls' = load_calls + 1
    /\ \/ \E msg \in ErrMsgs : FaultToOuter(msg)
       \/ /\ pc' = "llama_open"
          /\ UNCHANGED <<exc, faulted>>
    /\ UNCHANGED <<params, locals, infer_calls, infer_images, handle, loaded,
                   result, response>>

\* join every path, take image_paths[0], Image.open(...).convert('RGB')
LlamaOpen ==
    /\ pc = "llama_open"
    /\ image_paths' = Indices(Len(images))
    /\ IF Len(images) = 0
       THEN /\ RaiseToOuter("list index out of range")
            /\ UNCHANGED touched
       ELSE /\ touched' = touched \cup {image_paths'[1]}
            /\ IF /\ Exists(images[1])
                  /\ OpensAsImage(images[1])
                  /\ Decodes(images[1])
               THEN /\ pc' = "llama_preprocess"
                    /\ UNCHANGED <<exc, faulted>>
               ELSE \E msg \in ErrMsgs : RaiseToOuter(msg)
    /\ UNCHANGED <<params, i, content, image_contents, pil_images, counters,
                   preproc_parts, open_images, handle, loaded, result,
                   response>>

\* apply_chat_template, processor(image, input_text).to(device)
LlamaPreprocess ==
    /\ pc = "llama_preprocess"
    /\ \/ \E msg \in ErrMsgs : FaultToOuter(msg)
       \/ /\ pc' = "llama_generate"
          /\ UNCHANGED <<exc, faulted>>
    /\ UNCHANGED <<params, locals, counters, handle, loaded, result,
                   response>>

\* output = model.generate(**inputs, max_new_tokens=512)
LlamaGenerate ==
    /\ pc = "llama_generate"
    /\ infer_calls' = infer_calls + 1
    /\ infer_images' = <<image_paths[1]>>
    /\ \/ \E msg \in ErrMsgs : FaultToOuter(msg)
       \/ /\ pc' = "llama_decode"
          /\ UNCHANGED <<exc, faulted>>
    /\ UNCHANGED <<params, locals, load_calls, handle, loaded, result,
                   response>>

\* response = processor.decode(output[0]); return response
LlamaDecode ==
    /\ pc = "llama_decode"
    /\ \/ /\ \E msg \in ErrMsgs : FaultToOuter(msg)
          /\ UNCHANGED <<result, response>>
       \/ /\ \E text \in DecodedTexts : result' = Str(text)
          /\ UNCHANGED response
          /\ pc' = "done"
          /\ UNCHANGED <<exc, faulted>>
    /\ UNCHANGED <<params, locals, counters, handle, loaded>>

(* ------------------------------ pixtral -------------------------------- *)

\* variant: the slice / filter is missing and every image is visited
FirstOnly_All(n) == n

\* how many of n listed images a single-image branch visits: images[:1],
\* enumerate(images) if i < 1
FirstOnly(n) == IF n < 1 THEN n ELSE 1

\* model, sampling_params, device = load_model('pixtral'); the text part
\* of messages
PixtralLoad ==
    /\ pc = "pixtral_load"
    /\ load_calls' = load_calls + 1
    /\ \/ /\ \E msg \in ErrMsgs : FaultToOuter(msg)
          /\ UNCHANGED content
       \/ /\ content' = <<TextPart>>
          /\ pc' = "pixtral_build"
          /\ UNCHANGED <<exc, faulted>>
    /\ UNCHANGED <<params, i, image_contents, image_paths, pil_images,
                   touched, infer_calls, infer_images, preproc_parts,
                   open_images, handle, loaded, result, response>>

\* one image of the list comprehension that builds messages:
\* image_to_data_url opens and reads the file, unguarded
PixtralBuildStep ==
    /\ pc = "pixtral_build"
    /\ i <= FirstOnly(Len(images))
    /\ touched' = touched \cup {i}
    /\ IF Exists(images[i]) /\ ReadsAsBytes(images[i])
       THEN /\ content' = Append(content, ImagePart(i))
            /\ i' = i + 1
            /\ UNCHANGED <<pc, exc, faulted>>
       ELSE /\ \E msg \in ErrMsgs : RaiseToOuter(msg)
            /\ UNCHANGED <<content, i>>
    /\ UNCHANGED <<params, image_contents, image_paths, pil_images, counters,
                   preproc_parts, open_images, handle, loaded, result,
                   response>>

\* outputs = model.chat(messages, ...); return outputs[0].outputs[0].text
PixtralChat ==
    /\ pc = "pixtral_build"
    /\ i > FirstOnly(Len(images))
    /\ infer_calls' = infer_calls + 1
    /\ infer_images' = ImageRefs(content)
    /\ \/ /\ \E msg \in ErrMsgs : FaultToOuter(msg)
          /\ UNCHANGED <<result, response>>
       \/ /\ \E text \in DecodedTexts : result' = Str(text)
          /\ UNCHANGED response
          /\ pc' = "done"
          /\ UNCHANGED <<exc, faulted>>
    /\ UNCHANGED <<params, locals, load_calls, handle, loaded>>

(* ------------------------------- molmo --------------------------------- *)

\* precision of a module after .half(): the module is cast in place
Half(dtype) == "float16"

\* model, processor, device = load_model('molmo'); model = model.half()
MolmoLoad ==
    /\ pc = "molmo_load"
    /\ load_calls' = load_calls + 1
    /\ \/ /\ \E msg \in ErrMsgs : FaultToOuter(msg)
          /\ UNCHANGED handle
       \/ /\ handle' = [handle EXCEPT !["molmo"] = Half(@)]
          /\ pc' = "molmo_loop"
          /\ UNCHANGED <<exc, faulted>>
    /\ UNCHANGED <<params, locals, infer_calls, infer_images, loaded, result,
                   response>>

\* the image object Image.open returned and the one convert returned
FileImage(k) == <<"file", k>>

RgbImage(k) == <<"rgb", k>>

\* one iteration of the loop over images[:1].  Image.open(...) acquires an
\* image bound to the open file; convert('RGB') returns a new image, kept
\* in pil_images.  The opened image is referenced by nothing afterwards and
\* is never closed here: whether the runtime has finalised it is its choice.
MolmoLoopStep ==
    /\ pc = "molmo_loop"
    /\ i <= FirstOnly(Len(images))
    /\ touched' = touched \cup {i}
    /\ i' = i + 1
    /\ IF Exists(images[i]) /\ OpensAsImage(images[i])
       THEN \E finalised \in BOOLEAN :
              LET file == IF finalised THEN {} ELSE {FileImage(i)}
              IN  IF Decodes(images[i])
                  THEN /\ pil_images' = Append(pil_images, i)
                       /\ open_images' =
                              open_images \cup file \cup {RgbImage(i)}
                  ELSE /\ open_images' = open_images \cup file
                       /\ UNCHANGED pil_images
       ELSE UNCHANGED <<pil_images, open_images>>
    /\ UNCHANGED <<pc, params, content, image_contents, image_paths, counters,
                   preproc_parts, handle, loaded, exc, faulted, result,
                   response>>

\* if not pil_images: return the "no images" text (before the try block)
MolmoCheck ==
    /\ pc = "molmo_loop"
    /\ i > FirstOnly(Len(images))
    /\ IF pil_images = <<>>
       THEN /\ result' = Str(NoImagesText)
            /\ UNCHANGED response
            /\ pc' = "done"
       ELSE /\ pc' = "molmo_process"
            /\ UNCHANGED <<result, response>>
    /\ UNCHANGED <<params, locals, counters, handle, loaded, exc, faulted>>

\* a collaborator called in the molmo try block raises: control goes to
\* the except clause of that block
FaultToMolmo(msg) ==
    /\ \E cls \in ExcClasses : exc' = Exc(cls, msg)
    /\ pc' = "molmo_except"
    /\ faulted' = TRUE

\* processor.process(images, text); move and cast the input tensors
MolmoProcess ==
    /\ pc = "molmo_process"
    /\ \/ \E msg \in ErrMsgs : FaultToMolmo(msg)
       \/ /\ pc' = "molmo_generate"
          /\ UNCHANGED <<exc, faulted>>
    /\ UNCHANGED <<params, locals, counters, handle, loaded, result,
                   response>>

\* output = model.generate_from_batch(inputs, ...)
MolmoGenerate ==
    /\ pc = "molmo_generate"
    /\ infer_calls' = infer_calls + 1
    /\ infer_images' = pil_images
    /\ \/ \E msg \in ErrMsgs : FaultToMolmo(msg)
       \/ /\ pc' = "molmo_decode"
          /\ UNCHANGED <<exc, faulted>>
    /\ UNCHANGED <<params, locals, load_calls, handle, loaded, result,
                   response>>

\* slice the generated tokens, tokenizer.decode, return generated_text
MolmoDecode ==
    /\ pc = "molmo_decode"
    /\ \/ /\ \E msg \in ErrMsgs : FaultToMolmo(msg)
          /\ UNCHANGED <<result, response>>
       \/ /\ \E text \in DecodedTexts : result' = Str(text)
          /\ UNCHANGED response
          /\ pc' = "molmo_finally"
          /\ UNCHANGED <<exc, faulted>>
    /\ UNCHANGED <<params, locals, counters, handle, loaded>>

\* what the except clause of the molmo try block returns
MolmoHandler(msg) == Str(ProcessingErrorPrefix \o msg)

\* the clause of the molmo try block, except Exception: any other
\* exception stays in flight while the finally clause runs
MolmoExcept ==
    /\ pc = "molmo_except"
    /\ pc' = "molmo_finally"
    /\ IF Catches(exc)
       THEN /\ result' = MolmoHandler(exc.msg)
            /\ exc' = NoExc
       ELSE UNCHANGED <<result, exc>>
    /\ UNCHANGED <<faulted, response, params, locals, counters, handle,
                   loaded>>

\* the image objects the finally clause closes: those in pil_images
ClosedByFinally(held) == {RgbImage(held[k]) : k \in 1..Len(held)}

\* finally: for img in pil_images: img.close(); then the return completes,
\* or the exception still in flight goes on to the outer clause
MolmoFinally ==
    /\ pc = "molmo_finally"
    /\ open_images' = open_images \ ClosedByFinally(pil_images)
    /\ pc' = IF exc = NoExc THEN "done" ELSE "outer_except"
    /\ UNCHANGED <<params, i, content, image_contents, image_paths,
                   pil_images, touched, counters, preproc_parts, handle,
                   loaded, exc, faulted, result, response>>

(* --------------------------- specifications ---------------------------- *)

Next ==
    \/ Call
    \/ Return
    \/ Dispatch
    \/ InvalidModel
    \/ OuterExcept
    \/ QwenImport
    \/ QwenLoad
    \/ QwenLoopStep
    \/ QwenPreprocess
    \/ QwenGenerate
    \/ QwenDecode
    \/ GeminiLoad
    \/ GeminiLoopStep
    \/ GeminiCheck
    \/ GeminiInvoke
    \/ GeminiExcept
    \/ Gpt4Client
    \/ Gpt4LoopStep
    \/ Gpt4Check
    \/ Gpt4Invoke
    \/ Gpt4Except
    \/ LlamaLoad
    \/ LlamaOpen
    \/ LlamaPreprocess
    \/ LlamaGenerate
    \/ LlamaDecode
    \/ PixtralLoad
    \/ PixtralBuildStep
    \/ PixtralChat
    \/ MolmoLoad
    \/ MolmoLoopStep
    \/ MolmoCheck
    \/ MolmoProcess
    \/ MolmoGenerate
    \/ MolmoDecode
    \/ MolmoExcept
    \/ MolmoFinally

Spec == Init /\ [][Next]_vars

\* calls of the qwen backend only, over the wider set of sizing hints
CallQwen ==
    /\ pc = "idle"
    /\ \E imgs \in ImageLists, h \in QwenHints, w \in QwenHints :
          Enter("qwen", imgs, h, w)

NextQwen ==
    \/ CallQwen
    \/ Return
    \/ Dispatch
    \/ OuterExcept
    \/ QwenImport
    \/ QwenLoad
    \/ QwenLoopStep
    \/ QwenPreprocess
    \/ QwenGenerate
    \/ QwenDecode

SpecQwen == Init /\ [][NextQwen]_vars

(* ------------------------------ properties ----------------------------- *)

\* the three branches whose protocol takes one image
SingleImageBackends == {"llama-vision", "pixtral", "molmo"}

\* the two branches that call a remote API
RemoteBackends == {"gemini", "gpt4"}

\* no listed file exists (the empty list included)
NoneExists(imgs) == \A k \in 1..Len(imgs) : ~Exists(imgs[k])

\* the indices of the usable images, in list order
Usable(imgs) == SelectSeq(Indices(Len(imgs)), LAMBDA k : imgs[k] = "ok")

\* the strings by which a call reports a failure
FailureStrings ==
    {Str(GenericErrorText)} \cup {Str(ProcessingErrorPrefix \o m) : m \in ErrMsgs}

\* C1: whatever the backend key, the image list and the collaborator that
\* raises, a finished call of generate_response has returned a text string
\* (never null) and no exception has left it.
C1_AlwaysReturnsText ==
    pc \in {"done", "raised"} =>
        pc = "done" /\ result.type = "str" /\ exc = NoExc

\* C2: for a model_choice that is none of the six keys, the call returns
\* exactly "Invalid model selected." and, throughout the call, load_model is
\* not invoked, no file is checked, opened or read, and no inference or
\* remote call is made.
C2_UnknownModelRejected ==
    (pc # "idle" /\ model_choice \notin Backends) =>
        /\ load_calls = 0
        /\ touched = {}
        /\ infer_calls = 0
        /\ pc = "done" => result = Str("Invalid model selected.")

C2_Witness ==
    /\ pc = "done"
    /\ model_choice = "QWEN"
    /\ result = Str("Invalid model selected.")
    /\ load_calls = 0

\* C3: for each of the six backends, a call whose image list is empty or
\* lists only files that do not exist never invokes the inference call and
\* (no collaborator failing on its own) returns exactly "No images could be
\* loaded for analysis."
C3_NoImagesSentinel ==
    (pc # "idle" /\ model_choice \in Backends /\ NoneExists(images)) =>
        /\ infer_calls = 0
        /\ (pc = "done" /\ ~faulted) =>
               result = Str("No images could be loaded for analysis.")

\* C4: for gemini and gpt4, when the remote call returns without raising and
\* the text field of the response is the empty string or null, the call
\* returns a non-empty sentinel string (for gemini "The Gemini model did not
\* generate any text response.") that is not a transport-failure string.
C4_EmptyTextSentinel ==
    (pc = "done" /\ model_choice \in RemoteBackends
        /\ response \in {Str(""), None}) =>
        /\ result.type = "str"
        /\ result.value # ""
        /\ result \notin FailureStrings
        /\ model_choice = "gemini" =>
               result = Str("The Gemini model did not generate any text response.")

\* C5: in the qwen branch every image part handed to the preprocessor
\* carries, for height and for width, the greatest multiple of 28 that does
\* not exceed the caller's hint (280 stays 280, 300 becomes 280), the same
\* pair for every image of the call.
C5_HintsRoundedDown ==
    (pc # "idle" /\ model_choice = "qwen") =>
        \A k \in 1..Len(preproc_parts) :
            LET h == preproc_parts[k].resized_height
                w == preproc_parts[k].resized_width
            IN  /\ h % 28 = 0 /\ h <= hints[1] /\ hints[1] < h + 28
                /\ w % 28 = 0 /\ w <= hints[2] /\ hints[2] < w + 28
                /\ hints[1] \in {280, 300} => h = 280
                /\ hints[2] \in {280, 300} => w = 280
                /\ h = preproc_parts[1].resized_height
                /\ w = preproc_parts[1].resized_width

C5_Witness ==
    /\ pc = "qwen_generate"
    /\ hints = <<300, 57>>
    /\ Len(preproc_parts) = 2
    /\ preproc_parts[1].resized_height = 280
    /\ preproc_parts[2].resized_width = 56

\* C6: for llama-vision, pixtral and molmo and an image list of two or more
\* entries, only the first image has its file checked, opened or read; no
\* later image is.
C6_OnlyFirstImageTouched ==
    (model_choice \in SingleImageBackends /\ Len(images) >= 2) =>
        touched \subseteq {1}

C6_Witness ==
    /\ pc = "done"
    /\ model_choice = "llama-vision"
    /\ Len(images) >= 2
    /\ touched = {1}
    /\ infer_calls = 1
    /\ result = Str("a cat")

\* the three branches that consume the whole image list
MultiImageBackends == {"qwen", "gemini", "gpt4"}

\* C7: a listed image that is missing or cannot be read or decoded is
\* treated as absent and does not abort the batch: every image of the list
\* is still resolved and, when some image is usable, the backend is invoked
\* once with exactly the usable images in list order and the call does not
\* end in a failure string (no collaborator failing on its own).  Stated for
\* the backends that consume the whole list; for the single-image backends
\* "every later image is still resolved" is excluded by C6.
C7_BadImageSkipped ==
    (pc = "done" /\ ~faulted /\ model_choice \in MultiImageBackends
        /\ \E k \in 1..Len(images) : images[k] # "ok") =>
        /\ touched = 1..Len(images)
        /\ Usable(images) # <<>> =>
               /\ infer_calls = 1
               /\ infer_images = Usable(images)
               /\ result \notin FailureStrings

\* C8: for gemini and gpt4 the remote call is made at most once in a call,
\* and when it raises any exception the call returns "An error occurred
\* while processing the images: <message>" and not the generic failure
\* string of the outer handler.  The nested clauses are "except Exception":
\* a remote call raising outside Exception (KeyboardInterrupt, SystemExit)
\* is caught by neither clause and leaves the call.
C8_AnyRemoteFailureCaught ==
    (pc # "idle" /\ model_choice \in RemoteBackends) =>
        /\ infer_calls <= 1
        /\ (pc \in {"done", "raised"} /\ response.type = "raised") =>
               /\ pc = "done"
               /\ result = Str("An error occurred while processing the images: "
                               \o response.value)

C10_HandleUnchanged ==
    handle = loaded

====
